---- MODULE Spec2Model ----
(***************************************************************************)
(* sailfish runtime: the growable output Buffer (runtime/buffer.rs) and    *)
(* the Render protocol (runtime/render.rs).                                *)
(*                                                                         *)
(* Memory is modelled explicitly: the heap maps the address of every live  *)
(* block to its size and bytes, a Buffer is the triple (data, len,         *)
(* capacity) of the struct, and the content of a buffer is what as_str     *)
(* reads, the first len bytes at data.  usize is WordBits wide and the     *)
(* arithmetic of reserve_internal wraps at that width (release build) or   *)
(* panics (debug build).  Bytes are integers 0..255; Uninit marks a byte   *)
(* of a block that was never written.                                      *)
(***************************************************************************)
EXTENDS Integers, Sequences, FiniteSets, TLC

VARIABLES bufs, strs, heap, status, last, hist, fed

vars == <<bufs, strs, heap, status, last, hist, fed>>

\* ------------------------------------------------------------------ bounds

\* width of usize in bits
WordBits == 6

\* buffers longer than this are not explored
MaxLen == 8

\* the same bound where two buffers are explored side by side
CloneMaxLen == 3

\* capacities above this are not explored where two buffers are
CloneMaxCap == 4

\* render calls made on a buffer
MaxRenders == 4

\* number of heap addresses the allocator hands out
MaxBlocks == 3

\* deepest nesting of references around a rendered value
MaxDepth == 3

\* ------------------------------------------------------------ machine word

RECURSIVE Pow2(_)
Pow2(n) == IF n = 0 THEN 1 ELSE 2 * Pow2(n - 1)

\* std::usize::MAX
USIZE_MAX == Pow2(WordBits) - 1

\* std::usize::MAX / 2, the capacity ceiling of safe_alloc and safe_realloc
HalfMax == USIZE_MAX \div 2

wrapping_sub(a, b) == (a - b) % (USIZE_MAX + 1)

wrapping_add(a, b) == (a + b) % (USIZE_MAX + 1)

wrapping_mul(a, b) == (a * b) % (USIZE_MAX + 1)

max(a, b) == IF a >= b THEN a ELSE b

\* ------------------------------------------------------------------- bytes

\* a byte of an allocated block that has not been written
Uninit == -1

RECURSIVE Fill(_)
Fill(n) == IF n = 0 THEN <<>> ELSE Append(Fill(n - 1), Uninit)

Take(s, n) == IF n >= Len(s) THEN s ELSE SubSeq(s, 1, n)

\* char::encode_utf8: the UTF-8 bytes of a code point
encode_utf8(cp) ==
    IF cp < 128 THEN <<cp>>
    ELSE IF cp < 2048 THEN <<192 + (cp \div 64), 128 + (cp % 64)>>
    ELSE IF cp < 65536
         THEN <<224 + (cp \div 4096), 128 + ((cp \div 64) % 64), 128 + (cp % 64)>>
         ELSE <<240 + (cp \div 262144), 128 + ((cp \div 4096) % 64),
                128 + ((cp \div 64) % 64), 128 + (cp % 64)>>

\* "apple" and "pie" of tests::test1
apple == <<97, 112, 112, 108, 101>>

pie == <<112, 105, 101>>

\* a text of n bytes 'x'
RECURSIVE Xs(_)
Xs(n) == IF n = 0 THEN <<>> ELSE Append(Xs(n - 1), 120)

\* a text so long that a buffer holding it cannot double its capacity
LongText == Xs(HalfMax \div 2 + 1)

\* -------------------------------------------------------------------- heap

\* align_of::<u8>() as *mut u8, the dangling pointer of Buffer::new
Dangling == 1

Addrs == 2 .. (1 + MaxBlocks)

EmptyHeap == [a \in {} |-> 0]

Live(h) == DOMAIN h

HasFree(h) == Addrs \ Live(h) # {}

Fresh(h) == CHOOSE a \in Addrs \ Live(h) : \A b \in Addrs \ Live(h) : a <= b

\* std::alloc::alloc(Layout(size, 1)).  A null result is the oracle "null"
\* (or an exhausted address space).  A zero-sized layout is undefined
\* behaviour of the allocator contract: the outcomes modelled are the ones
\* the system allocator produces, a null pointer or a pointer to a block of
\* size 0.
alloc(h, size, orc) ==
    IF orc = "null" \/ ~HasFree(h)
    THEN [ptr |-> 0, heap |-> h]
    ELSE [ptr |-> Fresh(h),
          heap |-> [a \in Live(h) \cup {Fresh(h)} |->
                      IF a = Fresh(h) THEN [size |-> size, bytes |-> Fill(size)]
                      ELSE h[a]]]

\* std::alloc::dealloc(ptr, Layout(size, 1)): ptr must be a live block that
\* was allocated with this size
dealloc_ok(h, ptr, size) == ptr \in Live(h) /\ h[ptr].size = size

dealloc(h, ptr) == [a \in Live(h) \ {ptr} |-> h[a]]

Resized(blk, new_size) ==
    [size |-> new_size,
     bytes |-> IF new_size <= blk.size THEN Take(blk.bytes, new_size)
               ELSE blk.bytes \o Fill(new_size - blk.size)]

\* std::alloc::realloc(ptr, Layout(size, 1), new_size): the block keeps its
\* bytes up to the smaller size and grows in place or moves; null leaves the
\* old block as it was
realloc(h, ptr, new_size, orc) ==
    IF orc = "null" \/ (orc = "moved" /\ ~HasFree(h))
    THEN [ptr |-> 0, heap |-> h]
    ELSE IF orc = "moved"
    THEN [ptr |-> Fresh(h),
          heap |-> [a \in (Live(h) \ {ptr}) \cup {Fresh(h)} |->
                      IF a = Fresh(h) THEN Resized(h[ptr], new_size) ELSE h[a]]]
    ELSE [ptr |-> ptr,
          heap |-> [h EXCEPT ![ptr] = Resized(h[ptr], new_size)]]

\* ptr::copy_nonoverlapping(src, dst + off, Len(src)) into the block at dst.
\* A copy that leaves the block is undefined behaviour: the operation goes on
\* (the length still advances) and the run is marked "ub".
WriteOk(h, dst, off, n) == n = 0 \/ (dst \in Live(h) /\ off + n <= h[dst].size)

Write(h, dst, off, src) ==
    IF Len(src) = 0 THEN h
    ELSE [h EXCEPT ![dst].bytes =
            [k \in 1 .. Len(h[dst].bytes) |->
               IF k > off /\ k <= off + Len(src) THEN src[k - off]
               ELSE h[dst].bytes[k]]]

\* ------------------------------------------------------------------ Buffer

\* the result of a step of a Buffer operation: the buffer, the heap and how
\* the operation ended ("ok", or the fatal outcome that stopped it)
St(b, h, s) == [buf |-> b, heap |-> h, status |-> s]

Fatal(st, why) == [st EXCEPT !.status = why]

\* Buffer::new
new == [data |-> Dangling, len |-> 0, capacity |-> 0]

\* safe_alloc
safe_alloc(h, capacity, orc) ==
    IF ~(capacity <= HalfMax) THEN [ptr |-> 0, heap |-> h, status |-> "capacity"]
    ELSE LET r == alloc(h, capacity, orc)
         IN  IF r.ptr = 0 THEN [ptr |-> 0, heap |-> h, status |-> "alloc"]
             ELSE [ptr |-> r.ptr, heap |-> r.heap, status |-> "ok"]

\* safe_realloc without its first assertion (size <= usize::MAX / 2)
safe_realloc_unchecked_size(h, ptr, capacity, new_cap, size, orc) ==
    IF ~(new_cap <= HalfMax)
    THEN [ptr |-> ptr, heap |-> h, status |-> "capacity"]
    ELSE IF capacity = 0
    THEN LET r == alloc(h, new_cap, orc)
         IN  IF r.ptr = 0 THEN [ptr |-> ptr, heap |-> h, status |-> "alloc"]
             ELSE [ptr |-> r.ptr, heap |-> r.heap, status |-> "ok"]
    ELSE IF ~dealloc_ok(h, ptr, capacity)
    THEN [ptr |-> ptr, heap |-> h, status |-> "ub"]
    ELSE LET r == realloc(h, ptr, new_cap, orc)
         IN  IF r.ptr = 0 THEN [ptr |-> ptr, heap |-> h, status |-> "alloc"]
             ELSE [ptr |-> r.ptr, heap |-> r.heap, status |-> "ok"]

\* safe_realloc
safe_realloc(h, ptr, capacity, new_capacity, size, orc) ==
    IF ~(size <= HalfMax) THEN [ptr |-> ptr, heap |-> h, status |-> "capacity"]
    ELSE IF ~(new_capacity <= HalfMax)
    THEN [ptr |-> ptr, heap |-> h, status |-> "capacity"]
    ELSE IF capacity = 0
    THEN LET r == alloc(h, new_capacity, orc)
         IN  IF r.ptr = 0 THEN [ptr |-> ptr, heap |-> h, status |-> "alloc"]
             ELSE [ptr |-> r.ptr, heap |-> r.heap, status |-> "ok"]
    ELSE IF ~dealloc_ok(h, ptr, capacity)
    THEN [ptr |-> ptr, heap |-> h, status |-> "ub"]
    ELSE LET r == realloc(h, ptr, new_capacity, orc)
         IN  IF r.ptr = 0 THEN [ptr |-> ptr, heap |-> h, status |-> "alloc"]
             ELSE [ptr |-> r.ptr, heap |-> r.heap, status |-> "ok"]

\* Buffer::with_capacity
with_capacity(h, n, orc) ==
    IF n = 0 THEN St(new, h, "ok")
    ELSE LET r == safe_alloc(h, n, orc)
         IN  IF r.status # "ok" THEN St(new, h, r.status)
             ELSE St([data |-> r.ptr, len |-> 0, capacity |-> n], r.heap, "ok")

\* Buffer::as_str: the len bytes at data
as_str(b, h) ==
    IF b.len = 0 THEN <<>>
    ELSE IF b.data \in Live(h) /\ b.len <= h[b.data].size
    THEN Take(h[b.data].bytes, b.len)
    ELSE <<Uninit>>

\* the new capacity reserve_internal computes: in a debug build an overflow
\* of capacity * 2 or capacity + size panics, in a release build it wraps
GrowOverflows(capacity, size) ==
    capacity * 2 > USIZE_MAX \/ capacity + size > USIZE_MAX

\* the growth policy without the doubling
new_capacity_no_doubling(capacity, size) == wrapping_add(capacity, size)

new_capacity(capacity, size) ==
    max(wrapping_mul(capacity, 2), wrapping_add(capacity, size))

\* Buffer::reserve_internal
reserve_internal(st, size, orc, debug) ==
    IF debug /\ GrowOverflows(st.buf.capacity, size) THEN Fatal(st, "overflow")
    ELSE LET nc == new_capacity(st.buf.capacity, size)
         IN  IF debug /\ ~(nc > st.buf.capacity) THEN Fatal(st, "debug_assert")
             ELSE LET r == safe_realloc(st.heap, st.buf.data, st.buf.capacity,
                                        nc, size, orc)
                  IN  IF r.status # "ok" THEN Fatal(st, r.status)
                      ELSE St([st.buf EXCEPT !.data = r.ptr, !.capacity = nc],
                              r.heap, "ok")

\* reserve that takes one byte of spare capacity too many for granted
reserve_off_by_one(st, size, orc, debug) ==
    IF size <= wrapping_sub(st.buf.capacity, st.buf.len) + 1 THEN st
    ELSE reserve_internal(st, size, orc, debug)

\* Buffer::reserve
reserve(st, size, orc, debug) ==
    IF size <= wrapping_sub(st.buf.capacity, st.buf.len) THEN st
    ELSE reserve_internal(st, size, orc, debug)

\* Buffer::advance
advance(b, additional) == [b EXCEPT !.len = b.len + additional]

\* Buffer::clear
clear(b) == [b EXCEPT !.len = 0]

\* push_str that compares the size with the capacity, not the spare capacity
push_str_ignores_len(st, data, orc, debug) ==
    LET size == Len(data)
        s1 == IF size > st.buf.capacity
              THEN reserve_internal(st, size, orc, debug)
              ELSE st
    IN  IF s1.status # "ok" THEN s1
        ELSE IF ~WriteOk(s1.heap, s1.buf.data, s1.buf.len, size)
        THEN St([s1.buf EXCEPT !.len = s1.buf.len + size], s1.heap, "ub")
        ELSE St([s1.buf EXCEPT !.len = s1.buf.len + size],
                Write(s1.heap, s1.buf.data, s1.buf.len, data), "ok")

\* push_str that copies to the start of the block, not to data + len
push_str_copies_to_start(st, data, orc, debug) ==
    LET size == Len(data)
        s1 == IF size > wrapping_sub(st.buf.capacity, st.buf.len)
              THEN reserve_internal(st, size, orc, debug)
              ELSE st
    IN  IF s1.status # "ok" THEN s1
        ELSE IF ~WriteOk(s1.heap, s1.buf.data, s1.buf.len, size)
        THEN St([s1.buf EXCEPT !.len = s1.buf.len + size], s1.heap, "ub")
        ELSE St([s1.buf EXCEPT !.len = s1.buf.len + size],
                Write(s1.heap, s1.buf.data, 0, data), "ok")

\* Buffer::push_str
push_str(st, data, orc, debug) ==
    LET size == Len(data)
        s1 == IF size > wrapping_sub(st.buf.capacity, st.buf.len)
              THEN reserve_internal(st, size, orc, debug)
              ELSE st
    IN  IF s1.status # "ok" THEN s1
        ELSE IF ~WriteOk(s1.heap, s1.buf.data, s1.buf.len, size)
        THEN St([s1.buf EXCEPT !.len = s1.buf.len + size], s1.heap, "ub")
        ELSE St([s1.buf EXCEPT !.len = s1.buf.len + size],
                Write(s1.heap, s1.buf.data, s1.buf.len, data), "ok")

\* Buffer::push
push(st, ch, orc, debug) == push_str(st, encode_utf8(ch), orc, debug)

\* a clone that keeps the capacity of the source
clone_keeps_capacity(b, h, orc) ==
    IF b.capacity = 0 THEN St(new, h, "ok")
    ELSE LET r == safe_alloc(h, b.capacity, orc)
         IN  IF r.status # "ok" THEN St(new, h, r.status)
             ELSE St([data |-> r.ptr, len |-> b.len, capacity |-> b.capacity],
                     Write(r.heap, r.ptr, 0, as_str(b, h)), "ok")

\* impl Clone for Buffer
clone(b, h, orc) ==
    IF b.capacity = 0 THEN St(new, h, "ok")
    ELSE LET r == safe_alloc(h, b.len, orc)
         IN  IF r.status # "ok" THEN St(new, h, r.status)
             ELSE St([data |-> r.ptr, len |-> b.len, capacity |-> b.len],
                     Write(r.heap, r.ptr, 0, as_str(b, h)), "ok")

\* impl Drop for Buffer: the heap after the drop and whether the dealloc
\* was issued for a live block with the size it was allocated with
drop(b, h) ==
    IF b.capacity # 0
    THEN IF dealloc_ok(h, b.data, b.capacity)
         THEN [heap |-> dealloc(h, b.data), status |-> "ok"]
         ELSE [heap |-> h, status |-> "ub"]
    ELSE [heap |-> h, status |-> "ok"]

\* into_string with the length and the capacity swapped
into_string_swapped(b) == [ptr |-> b.data, len |-> b.capacity, cap |-> b.len]

\* Buffer::into_string: String::from_raw_parts(data, len, capacity) of the
\* buffer wrapped in ManuallyDrop (no drop runs)
into_string(b) == [ptr |-> b.data, len |-> b.len, cap |-> b.capacity]

\* the text a String holds
StrText(s, h) == as_str([data |-> s.ptr, len |-> s.len, capacity |-> s.cap], h)

\* String::into_boxed_str as called by From<String>: shrink the allocation
\* to len (release it when len is 0), keeping the bytes
into_boxed_str(s, h, orc) ==
    IF s.cap > s.len
    THEN IF ~dealloc_ok(h, s.ptr, s.cap)
         THEN [ptr |-> s.ptr, len |-> s.len, heap |-> h, status |-> "ub"]
         ELSE IF s.len = 0
         THEN [ptr |-> Dangling, len |-> 0, heap |-> dealloc(h, s.ptr),
               status |-> "ok"]
         ELSE LET r == realloc(h, s.ptr, s.len, orc)
              IN  IF r.ptr = 0
                  THEN [ptr |-> s.ptr, len |-> s.len, heap |-> h,
                        status |-> "alloc"]
                  ELSE [ptr |-> r.ptr, len |-> s.len, heap |-> r.heap,
                        status |-> "ok"]
    ELSE [ptr |-> s.ptr, len |-> s.len, heap |-> h, status |-> "ok"]

\* impl From<String> for Buffer
from_string(s, h, orc) ==
    LET bs == into_boxed_str(s, h, orc)
    IN  St([data |-> bs.ptr, len |-> bs.len, capacity |-> bs.len],
           bs.heap, bs.status)

\* impl From<&str> for Buffer
from_str(h, other, orc) ==
    LET st == with_capacity(h, Len(other), orc)
    IN  IF st.status # "ok" THEN st
        ELSE IF ~WriteOk(st.heap, st.buf.data, 0, Len(other)) THEN Fatal(st, "ub")
        ELSE St(advance(st.buf, Len(other)),
                Write(st.heap, st.buf.data, 0, other), "ok")

\* String::from(&str): an owned string of exactly the text
string_from(h, text, orc) ==
    IF Len(text) = 0
    THEN [str |-> [ptr |-> Dangling, len |-> 0, cap |-> 0], heap |-> h,
          status |-> "ok"]
    ELSE LET r == alloc(h, Len(text), orc)
         IN  IF r.ptr = 0
             THEN [str |-> [ptr |-> Dangling, len |-> 0, cap |-> 0], heap |-> h,
                   status |-> "alloc"]
             ELSE [str |-> [ptr |-> r.ptr, len |-> Len(text), cap |-> Len(text)],
                   heap |-> Write(r.heap, r.ptr, 0, text), status |-> "ok"]

\* ------------------------------------------------- integer render fast path

\* the decimal digits of v as ASCII bytes, what itoap::write_to_ptr writes
RECURSIVE Digits(_)
Digits(v) == IF v < 10 THEN <<48 + v>> ELSE Append(Digits(v \div 10), 48 + (v % 10))

\* <u8 as itoap::Integer>::MAX_LEN
U8_MAX_LEN == 3

\* render_int!: impl Render for u8, render
render_int(st, v, orc, debug) ==
    LET s1 == reserve(st, U8_MAX_LEN, orc, debug)
        d == Digits(v)
    IN  IF s1.status # "ok" THEN s1
        ELSE IF ~WriteOk(s1.heap, s1.buf.data, s1.buf.len, Len(d))
        THEN St(advance(s1.buf, Len(d)), s1.heap, "ub")
        ELSE St(advance(s1.buf, Len(d)),
                Write(s1.heap, s1.buf.data, s1.buf.len, d), "ok")

\* ---------------------------------------------------------- Render protocol

\* the Result of a render call with the buffer and heap it leaves
Rendered(st, res) == [st |-> st, res |-> res]

\* the five named entities
QUOT == <<38, 113, 117, 111, 116, 59>>

AMP == <<38, 97, 109, 112, 59>>

LT == <<38, 108, 116, 59>>

GT == <<38, 103, 116, 59>>

APOS == <<38, 35, 48, 51, 57, 59>>

\* impl Render for char: render
render_char(ch, st, orc, debug) == Rendered(push(st, ch, orc, debug), "Ok")

\* impl Render for char with the entities of < and > exchanged
render_escaped_char_swapped(ch, st, orc, debug) ==
    Rendered(IF ch = 34 THEN push_str(st, QUOT, orc, debug)
             ELSE IF ch = 38 THEN push_str(st, AMP, orc, debug)
             ELSE IF ch = 60 THEN push_str(st, GT, orc, debug)
             ELSE IF ch = 62 THEN push_str(st, LT, orc, debug)
             ELSE IF ch = 39 THEN push_str(st, APOS, orc, debug)
             ELSE push(st, ch, orc, debug),
             "Ok")

\* impl Render for char: render_escaped
render_escaped_char(ch, st, orc, debug) ==
    Rendered(IF ch = 34 THEN push_str(st, QUOT, orc, debug)
             ELSE IF ch = 38 THEN push_str(st, AMP, orc, debug)
             ELSE IF ch = 60 THEN push_str(st, LT, orc, debug)
             ELSE IF ch = 62 THEN push_str(st, GT, orc, debug)
             ELSE IF ch = 39 THEN push_str(st, APOS, orc, debug)
             ELSE push(st, ch, orc, debug),
             "Ok")

\* the escaped form of a text: each of the five special bytes replaced by
\* its entity, every other byte copied
RECURSIVE Escaped(_)
Escaped(text) ==
    IF Len(text) = 0 THEN <<>>
    ELSE LET c == text[Len(text)]
             e == IF c = 34 THEN QUOT
                  ELSE IF c = 38 THEN AMP
                  ELSE IF c = 60 THEN LT
                  ELSE IF c = 62 THEN GT
                  ELSE IF c = 39 THEN APOS
                  ELSE <<c>>
         IN  Escaped(SubSeq(text, 1, Len(text) - 1)) \o e

\* escape::escape_to_buf(feed, buf): appends the escaped form of feed
escape_to_buf(feed, st, orc, debug) == push_str(st, Escaped(feed), orc, debug)

\* Render::render of a type outside the crate that keeps the default
\* render_escaped: it writes v.text into the buffer it is given and returns
\* Err when v.fail (a composite type reporting an inner failure)
render_user(v, st, orc, debug) ==
    Rendered(push_str(st, v.text, orc, debug), IF v.fail THEN "Err" ELSE "Ok")

\* a render_escaped that renders into the destination and ignores the
\* Result of render
render_escaped_in_place(v, st, orc, debug) ==
    LET r == render_user(v, st, orc, debug) IN Rendered(r.st, "Ok")

\* the end of the default render_escaped: the temporary buffer is dropped
\* when the body returns, after e (the destination and the heap it leaves)
drop_tmp(tmp, e, res) ==
    IF e.status # "ok" THEN Rendered(e, "Ok")
    ELSE LET d == drop(tmp, e.heap)
         IN  Rendered(St(e.buf, d.heap, d.status), res)

\* the default render_escaped after self.render(&mut tmp) returned t: the ?
\* returns its Err, otherwise the temporary content is escaped into b
escape_tmp(t, st, orc, debug) ==
    IF t.st.status # "ok"
    THEN Rendered(St(st.buf, t.st.heap, t.st.status), "Ok")
    ELSE IF t.res = "Err"
    THEN drop_tmp(t.st.buf, St(st.buf, t.st.heap, "ok"), "Err")
    ELSE drop_tmp(t.st.buf,
                  escape_to_buf(as_str(t.st.buf, t.st.heap),
                                St(st.buf, t.st.heap, "ok"), orc, debug),
                  "Ok")

\* Render::render_escaped, the default body
render_escaped(v, st, orc, debug) ==
    escape_tmp(render_user(v, St(new, st.heap, "ok"), orc, debug),
               st, orc, debug)

\* -------------------------------------------------- bool, floats, wrappers

\* "true", "false"
TRUE_STR == <<116, 114, 117, 101>>

FALSE_STR == <<102, 97, 108, 115, 101>>

\* impl Render for bool: render
render_bool(v, st, orc, debug) ==
    Rendered(push_str(st, IF v THEN TRUE_STR ELSE FALSE_STR, orc, debug), "Ok")

\* impl Render for bool: render_escaped
render_escaped_bool(v, st, orc, debug) == render_bool(v, st, orc, debug)

\* render_int!: render_escaped
render_escaped_int(st, v, orc, debug) == render_int(st, v, orc, debug)

\* a float is NaN, an infinity or finite; a finite one is a sign and a
\* magnitude counted in tenths, so 2.3 is [neg |-> FALSE, tenths |-> 23]
is_finite(f) == f.class = "finite"

is_nan(f) == f.class = "nan"

\* *self > 0.0 (false for NaN)
gt_zero(f) ==
    /\ f.class # "nan"
    /\ ~f.neg
    /\ (f.class = "inf" \/ f.tenths > 0)

\* ryu::raw::format32 / format64 for a finite float with one decimal: the
\* sign, the integer digits, the point and the tenths digit
format(f) ==
    (IF f.neg THEN <<45>> ELSE <<>>)
        \o Digits(f.tenths \div 10) \o <<46, 48 + (f.tenths % 10)>>

NAN_STR == <<78, 97, 78>>

INF_STR == <<105, 110, 102>>

NEG_INF_STR == <<45, 105, 110, 102>>

\* the bytes reserved before a finite float is formatted
F32_RESERVE == 16

F64_RESERVE == 24

\* the finite branch: reserve n bytes, let the formatter write at data + len
\* and advance by the length it returns
write_float(f, n, st, orc, debug) ==
    LET s1 == reserve(st, n, orc, debug)
        d == format(f)
    IN  IF s1.status # "ok" THEN s1
        ELSE IF ~WriteOk(s1.heap, s1.buf.data, s1.buf.len, Len(d))
        THEN St(advance(s1.buf, Len(d)), s1.heap, "ub")
        ELSE St(advance(s1.buf, Len(d)),
                Write(s1.heap, s1.buf.data, s1.buf.len, d), "ok")

\* f32 render without the NaN test
render_f32_no_nan_test(f, st, orc, debug) ==
    Rendered(IF is_finite(f) THEN write_float(f, F32_RESERVE, st, orc, debug)
             ELSE IF gt_zero(f) THEN push_str(st, INF_STR, orc, debug)
             ELSE push_str(st, NEG_INF_STR, orc, debug),
             "Ok")

\* impl Render for f32: render
render_f32(f, st, orc, debug) ==
    Rendered(IF is_finite(f) THEN write_float(f, F32_RESERVE, st, orc, debug)
             ELSE IF is_nan(f) THEN push_str(st, NAN_STR, orc, debug)
             ELSE IF gt_zero(f) THEN push_str(st, INF_STR, orc, debug)
             ELSE push_str(st, NEG_INF_STR, orc, debug),
             "Ok")

\* impl Render for f32: render_escaped
render_escaped_f32(f, st, orc, debug) == render_f32(f, st, orc, debug)

\* impl Render for f64: render
render_f64(f, st, orc, debug) ==
    Rendered(IF is_finite(f) THEN write_float(f, F64_RESERVE, st, orc, debug)
             ELSE IF is_nan(f) THEN push_str(st, NAN_STR, orc, debug)
             ELSE IF gt_zero(f) THEN push_str(st, INF_STR, orc, debug)
             ELSE push_str(st, NEG_INF_STR, orc, debug),
             "Ok")

\* impl Render for f64: render_escaped
render_escaped_f64(f, st, orc, debug) == render_f64(f, st, orc, debug)

\* a value to render: a base value of some type under wrappers, the
\* outermost first (&&true is bool TRUE under <<"&", "&">>)
Value(type, val, wraps) == [type |-> type, val |-> val, wraps |-> wraps]

\* the wrappers render_deref! is instantiated for
DerefTypes ==
    {"&", "&mut", "Box", "Rc", "Arc", "Cow", "Ref", "RefMut", "MutexGuard",
     "RwLockReadGuard", "RwLockWriteGuard"}

\* **self, self.get(), self.0: the value under the outermost wrapper
deref(v) == [v EXCEPT !.wraps = Tail(@)]

\* the value under all its wrappers
RECURSIVE Innermost(_)
Innermost(v) == IF v.wraps = <<>> THEN v ELSE Innermost(deref(v))

\* Render::render and Render::render_escaped of a value, dispatched on its type
RECURSIVE Render_render(_, _, _, _)
RECURSIVE Render_render_escaped(_, _, _, _)

\* render_deref!: render
render_deref(v, st, orc, debug) == Render_render(deref(v), st, orc, debug)

\* render_deref! with render_escaped forwarding to render
render_escaped_deref_to_render(v, st, orc, debug) ==
    Render_render(deref(v), st, orc, debug)

\* render_deref!: render_escaped
render_escaped_deref(v, st, orc, debug) ==
    Render_render_escaped(deref(v), st, orc, debug)

\* render_nonzero!: render
render_nonzero(v, st, orc, debug) == Render_render(deref(v), st, orc, debug)

\* render_nonzero!: render_escaped
render_escaped_nonzero(v, st, orc, debug) ==
    Render_render_escaped(deref(v), st, orc, debug)

\* impl Render for Wrapping<T>: render
render_wrapping(v, st, orc, debug) == Render_render(deref(v), st, orc, debug)

\* impl Render for Wrapping<T>: render_escaped
render_escaped_wrapping(v, st, orc, debug) ==
    Render_render_escaped(deref(v), st, orc, debug)

Render_render(v, st, orc, debug) ==
    IF v.wraps # <<>>
    THEN IF Head(v.wraps) \in DerefTypes THEN render_deref(v, st, orc, debug)
         ELSE IF Head(v.wraps) = "NonZero"
         THEN render_nonzero(v, st, orc, debug)
         ELSE render_wrapping(v, st, orc, debug)
    ELSE CASE v.type = "bool" -> render_bool(v.val, st, orc, debug)
           [] v.type = "char" -> render_char(v.val, st, orc, debug)
           [] v.type = "u8" -> Rendered(render_int(st, v.val, orc, debug), "Ok")
           [] v.type = "f32" -> render_f32(v.val, st, orc, debug)
           [] v.type = "f64" -> render_f64(v.val, st, orc, debug)
           [] v.type = "user" -> render_user(v.val, st, orc, debug)

Render_render_escaped(v, st, orc, debug) ==
    IF v.wraps # <<>>
    THEN IF Head(v.wraps) \in DerefTypes
         THEN render_escaped_deref(v, st, orc, debug)
         ELSE IF Head(v.wraps) = "NonZero"
         THEN render_escaped_nonzero(v, st, orc, debug)
         ELSE render_escaped_wrapping(v, st, orc, debug)
    ELSE CASE v.type = "bool" -> render_escaped_bool(v.val, st, orc, debug)
           [] v.type = "char" -> render_escaped_char(v.val, st, orc, debug)
           [] v.type = "u8" ->
                Rendered(render_escaped_int(st, v.val, orc, debug), "Ok")
           [] v.type = "f32" -> render_escaped_f32(v.val, st, orc, debug)
           [] v.type = "f64" -> render_escaped_f64(v.val, st, orc, debug)
           [] v.type = "user" -> render_escaped(v.val, st, orc, debug)

\* ------------------------------------------------------------ the program

\* the two owners of tests::clone: s1 is constructed, s2 is its clone
Slots == {"s1", "s2"}

Other(i) == IF i = "s1" THEN "s2" ELSE "s1"

\* what the allocator may answer, and the two build profiles (debug or not)
Oracles == {"inplace", "moved", "null"}

Builds == BOOLEAN

\* the inputs explored with one buffer
OneIn ==
    [texts |-> {<<>>, pie, apple},
     lits |-> {<<>>, pie, LongText},
     chars |-> {233},
     sizes |-> {0, 1, 3, HalfMax, HalfMax + 1, USIZE_MAX},
     caps |-> {0, 1, 5, HalfMax + 1},
     ints |-> {7, 255},
     maxlen |-> MaxLen,
     maxcap |-> HalfMax]

\* the inputs explored with a buffer and its clone
TwoIn ==
    [texts |-> {pie},
     lits |-> {<<>>, pie},
     chars |-> {233},
     sizes |-> {1, HalfMax + 1},
     caps |-> {0, 2},
     ints |-> {7},
     maxlen |-> CloneMaxLen,
     maxcap |-> CloneMaxCap]

Put(f, i, v) == [x \in DOMAIN f \cup {i} |-> IF x = i THEN v ELSE f[x]]

Del(f, i) == [x \in DOMAIN f \ {i} |-> f[x]]

Free(i) == i \notin DOMAIN bufs /\ i \notin DOMAIN strs

\* the last call: its name, the slot it was made on and the Result of a
\* render call (Ok for every other call that returns)
OpR(name, i, res) == [op |-> name, b |-> i, res |-> res]

Op(name, i) == OpR(name, i, "Ok")

NoBufs == [i \in {} |-> new]

NoStrs == [i \in {} |-> 0]

NoHist == [i \in {} |-> <<>>]

Init ==
    /\ bufs = NoBufs
    /\ strs = NoStrs
    /\ heap = EmptyHeap
    /\ status = "ok"
    /\ last = Op("init", "s1")
    /\ hist = NoHist
    /\ fed = <<>>

\* handle_alloc_error: the process aborts, nothing of it is left
Abort(op, i) ==
    /\ status' = "alloc"
    /\ bufs' = NoBufs
    /\ strs' = NoStrs
    /\ heap' = EmptyHeap
    /\ hist' = NoHist
    /\ fed' = <<>>
    /\ last' = Op(op, i)

\* a panic: the operation stops where it is, with the state it has reached
Panic(op, i, st) ==
    /\ status' = st.status
    /\ heap' = st.heap
    /\ last' = Op(op, i)
    /\ UNCHANGED <<strs, hist, fed>>

\* a constructor ended: the buffer exists if it returned
Construct(i, st, op, text) ==
    IF st.status = "alloc" THEN Abort(op, i)
    ELSE IF st.status # "ok" THEN Panic(op, i, st) /\ bufs' = bufs
    ELSE /\ status' = "ok"
         /\ heap' = st.heap
         /\ last' = Op(op, i)
         /\ strs' = strs
         /\ bufs' = Put(bufs, i, st.buf)
         /\ hist' = Put(hist, i, text)
         /\ fed' = fed

\* an operation on buffer i ended; text is what the buffer is meant to hold
\* when the operation returns
Mutate(i, st, op, text, in) ==
    IF st.status = "alloc" THEN Abort(op, i)
    ELSE IF st.status # "ok"
    THEN Panic(op, i, st) /\ bufs' = [bufs EXCEPT ![i] = st.buf]
    ELSE /\ st.buf.len <= in.maxlen /\ st.buf.capacity <= in.maxcap
         /\ status' = "ok"
         /\ heap' = st.heap
         /\ bufs' = [bufs EXCEPT ![i] = st.buf]
         /\ last' = Op(op, i)
         /\ strs' = strs
         /\ hist' = [hist EXCEPT ![i] = text]
         /\ fed' = IF op = "clear" THEN <<>> ELSE fed

New ==
    /\ status = "ok" /\ Free("s1")
    /\ Construct("s1", St(new, heap, "ok"), "new", <<>>)

WithCapacityAt(n) ==
    /\ status = "ok" /\ Free("s1")
    /\ \E orc \in Oracles :
         Construct("s1", with_capacity(heap, n, orc), "with_capacity", <<>>)

WithCapacity(in) == \E n \in in.caps : WithCapacityAt(n)

FromStr(in) ==
    /\ status = "ok" /\ Free("s1")
    /\ \E t \in in.lits, orc \in Oracles :
         Construct("s1", from_str(heap, t, orc), "from_str", t)

StringFrom(in) ==
    /\ status = "ok" /\ Free("s1")
    /\ \E t \in in.lits, orc \in Oracles :
         LET r == string_from(heap, t, orc)
         IN  IF r.status = "alloc" THEN Abort("string_from", "s1")
             ELSE /\ status' = "ok"
                  /\ heap' = r.heap
                  /\ last' = Op("string_from", "s1")
                  /\ bufs' = bufs
                  /\ strs' = Put(strs, "s1", r.str)
                  /\ hist' = Put(hist, "s1", t)
                  /\ fed' = fed

PushStrAt(i, t, in) ==
    /\ status = "ok" /\ i \in DOMAIN bufs
    /\ \E orc \in Oracles, debug \in Builds :
         Mutate(i, push_str(St(bufs[i], heap, "ok"), t, orc, debug),
                "push_str", hist[i] \o t, in)

PushStr(in) == \E i \in Slots, t \in in.texts : PushStrAt(i, t, in)

PushAt(i, ch, in) ==
    /\ status = "ok" /\ i \in DOMAIN bufs
    /\ \E orc \in Oracles, debug \in Builds :
         Mutate(i, push(St(bufs[i], heap, "ok"), ch, orc, debug),
                "push", hist[i] \o encode_utf8(ch), in)

Push(in) == \E i \in Slots, ch \in in.chars : PushAt(i, ch, in)

ReserveAt(i, n, in) ==
    /\ status = "ok" /\ i \in DOMAIN bufs
    /\ \E orc \in Oracles, debug \in Builds :
         Mutate(i, reserve(St(bufs[i], heap, "ok"), n, orc, debug),
                "reserve", hist[i], in)

Reserve(in) == \E i \in Slots, n \in in.sizes : ReserveAt(i, n, in)

\* the bytes past len are dead (every operation writes a byte before it
\* makes it part of the content), so the model forgets them: states that
\* differ in dead bytes only are one state
Scrub(h, b) ==
    IF b.data \in Live(h)
    THEN [h EXCEPT ![b.data].bytes =
            [k \in 1 .. Len(h[b.data].bytes) |->
               IF k > b.len THEN Uninit ELSE h[b.data].bytes[k]]]
    ELSE h

Clear ==
    /\ status = "ok"
    /\ \E i \in DOMAIN bufs :
         Mutate(i, St(clear(bufs[i]), Scrub(heap, clear(bufs[i])), "ok"),
                "clear", <<>>, OneIn)

RenderIntAt(i, v, in) ==
    /\ status = "ok" /\ i \in DOMAIN bufs
    /\ \E orc \in Oracles, debug \in Builds :
         Mutate(i, render_int(St(bufs[i], heap, "ok"), v, orc, debug),
                "render_int", hist[i] \o Digits(v), in)

RenderInt(in) == \E i \in Slots, v \in in.ints : RenderIntAt(i, v, in)

CloneAt(i) ==
    /\ status = "ok" /\ i \in DOMAIN bufs /\ Free(Other(i))
    /\ \E orc \in Oracles :
         Construct(Other(i), clone(bufs[i], heap, orc), "clone", hist[i])

Clone == \E i \in Slots : CloneAt(i)

Drop ==
    /\ status = "ok"
    /\ \E i \in DOMAIN bufs :
         LET r == drop(bufs[i], heap)
         IN  /\ status' = r.status
             /\ heap' = r.heap
             /\ bufs' = Del(bufs, i)
             /\ hist' = Del(hist, i)
             /\ strs' = strs
             /\ fed' = fed
             /\ last' = Op("drop", i)

IntoStringAt(i) ==
    /\ status = "ok" /\ i \in DOMAIN bufs
    /\ strs' = Put(strs, i, into_string(bufs[i]))
    /\ bufs' = Del(bufs, i)
    /\ last' = Op("into_string", i)
    /\ UNCHANGED <<heap, status, hist, fed>>

IntoString == \E i \in Slots : IntoStringAt(i)

FromStringAt(i) ==
    /\ status = "ok" /\ i \in DOMAIN strs
    /\ \E orc \in Oracles :
         LET st == from_string(strs[i], heap, orc)
         IN  IF st.status = "alloc" THEN Abort("from_string", i)
             ELSE IF st.status # "ok"
             THEN Panic("from_string", i, st) /\ bufs' = bufs
             ELSE /\ status' = "ok"
                  /\ heap' = st.heap
                  /\ last' = Op("from_string", i)
                  /\ hist' = hist
                  /\ fed' = fed
                  /\ bufs' = Put(bufs, i, st.buf)
                  /\ strs' = Del(strs, i)

FromString == \E i \in Slots : FromStringAt(i)

\* the characters and the values of user types rendered
EscChars == {34, 38, 60, 62, 39, 99, 32, 233}

RawChars == {233}

UserValues ==
    {[text |-> <<60, 99>>, fail |-> FALSE],
     [text |-> <<38>>, fail |-> TRUE]}

\* while rendering, the allocator moves a block whenever it grows, or fails
RenderOracles == {"moved", "null"}

\* a render call on the buffer of s1 ended; entry is what it was called with
RenderCall(r, op, entry) ==
    IF r.st.status = "alloc" THEN Abort(op, "s1")
    ELSE IF r.st.status # "ok"
    THEN Panic(op, "s1", r.st) /\ bufs' = [bufs EXCEPT !["s1"] = r.st.buf]
    ELSE /\ status' = "ok"
         /\ heap' = r.st.heap
         /\ bufs' = [bufs EXCEPT !["s1"] = r.st.buf]
         /\ last' = OpR(op, "s1", r.res)
         /\ fed' = IF r.res = "Ok" THEN Append(fed, entry) ELSE fed
         /\ UNCHANGED <<strs, hist>>

CanRender == status = "ok" /\ "s1" \in DOMAIN bufs /\ Len(fed) < MaxRenders

RenderCharAt(ch) ==
    /\ CanRender
    /\ \E orc \in RenderOracles, debug \in Builds :
         RenderCall(render_char(ch, St(bufs["s1"], heap, "ok"), orc, debug),
                    "render_char", <<"raw", ch>>)

RenderChar == \E ch \in RawChars : RenderCharAt(ch)

RenderEscapedCharAt(ch) ==
    /\ CanRender
    /\ \E orc \in RenderOracles, debug \in Builds :
         RenderCall(render_escaped_char(ch, St(bufs["s1"], heap, "ok"), orc,
                                        debug),
                    "render_escaped_char", <<"esc", ch>>)

RenderEscapedChar == \E ch \in EscChars : RenderEscapedCharAt(ch)

RenderEscapedAt(v) ==
    /\ CanRender
    /\ \E orc \in RenderOracles, debug \in Builds :
         RenderCall(render_escaped(v, St(bufs["s1"], heap, "ok"), orc, debug),
                    "render_escaped", <<"user", v.text>>)

RenderEscaped == \E v \in UserValues : RenderEscapedAt(v)

\* rendering starts with Buffer::new(), as in tests::receiver_coercion
InitRender ==
    /\ bufs = [i \in {"s1"} |-> new]
    /\ strs = NoStrs
    /\ heap = EmptyHeap
    /\ status = "ok"
    /\ last = Op("new", "s1")
    /\ hist = [i \in {"s1"} |-> <<>>]
    /\ fed = <<>>

NextRender ==
    \/ RenderChar
    \/ RenderEscapedChar
    \/ RenderEscaped

SpecRender == InitRender /\ [][NextRender]_vars

\* a render call on a value v ended on the buffer of s1; entry is what the
\* log keeps of it
ValueCall(r, op, v, entry) ==
    /\ last' = [op |-> op, b |-> "s1", res |-> r.res, arg |-> v]
    /\ IF r.st.status = "alloc"
       THEN /\ status' = "alloc"
            /\ bufs' = NoBufs
            /\ strs' = NoStrs
            /\ heap' = EmptyHeap
            /\ hist' = NoHist
            /\ fed' = <<>>
       ELSE /\ status' = r.st.status
            /\ heap' = r.st.heap
            /\ bufs' = [bufs EXCEPT !["s1"] = r.st.buf]
            /\ fed' = IF r.st.status = "ok" /\ r.res = "Ok"
                      THEN Append(fed, entry) ELSE fed
            /\ UNCHANGED <<strs, hist>>

\* these calls reserve at most F64_RESERVE bytes, far from overflowing the
\* capacity arithmetic, where alone the build profiles differ: the release
\* build is explored
ValueBuilds == {FALSE}

\* Render::render(&v, &mut b)
RenderValueAt(v, entry) ==
    /\ CanRender
    /\ \E orc \in RenderOracles, debug \in ValueBuilds :
         ValueCall(Render_render(v, St(bufs["s1"], heap, "ok"), orc, debug),
                   "render", v, entry)

\* Render::render_escaped(&v, &mut b)
RenderEscapedValueAt(v, entry) ==
    /\ CanRender
    /\ \E orc \in RenderOracles, debug \in ValueBuilds :
         ValueCall(Render_render_escaped(v, St(bufs["s1"], heap, "ok"), orc,
                                         debug),
                   "render_escaped", v, entry)

\* d references, one inside the other
RECURSIVE Refs(_)
Refs(d) == IF d = 0 THEN <<>> ELSE <<"&">> \o Refs(d - 1)

\* the wrapped values rendered: the character < under each wrapper of
\* render_deref!, true and false in turn under 0 to MaxDepth references, and
\* an integer, a float and a user value under the other wrappers
WrappedValues ==
    {Value("char", 60, <<w>>) : w \in DerefTypes}
        \cup {Value("bool", d % 2 = 0, Refs(d)) : d \in 0 .. MaxDepth}
        \cup {Value("u8", 4, <<"Rc">>),
              Value("f32", [class |-> "finite", neg |-> FALSE, tenths |-> 23],
                    <<"Rc">>),
              Value("u8", 4, <<"NonZero">>),
              Value("u8", 4, <<"Box", "Wrapping", "NonZero">>),
              Value("user", [text |-> <<60, 99>>, fail |-> FALSE], <<"Cow">>)}

\* of a wrapped value the log keeps that a call was made
RenderWrapped == \E v \in WrappedValues : RenderValueAt(v, <<"value">>)

RenderEscapedWrapped ==
    \E v \in WrappedValues : RenderEscapedValueAt(v, <<"value">>)

NextDeref ==
    \/ RenderWrapped
    \/ RenderEscapedWrapped

SpecDeref == InitRender /\ [][NextDeref]_vars

\* the floats rendered: 0.0, 2.3, -1.5, the infinities and NaN
Floats ==
    {[class |-> "finite", neg |-> FALSE, tenths |-> 0],
     [class |-> "finite", neg |-> FALSE, tenths |-> 23],
     [class |-> "finite", neg |-> TRUE, tenths |-> 15],
     [class |-> "inf", neg |-> FALSE, tenths |-> 0],
     [class |-> "inf", neg |-> TRUE, tenths |-> 0],
     [class |-> "nan", neg |-> FALSE, tenths |-> 0]}

FloatValues == {Value(t, f, <<>>) : t \in {"f32", "f64"}, f \in Floats}

\* tests::float renders floats of one type into a buffer
OneType(v) == \A k \in 1 .. Len(fed) : fed[k].type = v.type

\* of a float the log keeps the value
RenderFloat ==
    \E v \in FloatValues : OneType(v) /\ RenderValueAt(v, v)

RenderEscapedFloat ==
    \E v \in FloatValues : OneType(v) /\ RenderEscapedValueAt(v, v)

NextFloat ==
    \/ RenderFloat
    \/ RenderEscapedFloat

SpecFloat == InitRender /\ [][NextFloat]_vars

\* one buffer, built and used freely
Next ==
    \/ New
    \/ WithCapacity(OneIn)
    \/ FromStr(OneIn)
    \/ StringFrom(OneIn)
    \/ PushStr(OneIn)
    \/ Push(OneIn)
    \/ Reserve(OneIn)
    \/ Clear
    \/ RenderInt(OneIn)
    \/ Drop
    \/ IntoString
    \/ FromString

Spec == Init /\ [][Next]_vars

\* a buffer and its clone, each used freely
NextClone ==
    \/ New
    \/ WithCapacity(TwoIn)
    \/ FromStr(TwoIn)
    \/ StringFrom(TwoIn)
    \/ PushStr(TwoIn)
    \/ Push(TwoIn)
    \/ Reserve(TwoIn)
    \/ Clear
    \/ RenderInt(TwoIn)
    \/ Clone
    \/ Drop
    \/ IntoString
    \/ FromString

SpecClone == Init /\ [][NextClone]_vars

\* ----------------------------------------------------------------- checks

Content(i) == as_str(bufs[i], heap)

Spare(b) == b.capacity - b.len

\* the step is operation op on slot i
Did(op, i) == last'.op = op /\ last'.b = i

Returned == status' = "ok"

Panicked == status' \in {"capacity", "overflow"}

TypeOK ==
    /\ DOMAIN bufs \subseteq Slots
    /\ DOMAIN bufs \cap DOMAIN strs = {}
    /\ status \in {"ok", "capacity", "overflow", "alloc", "ub", "debug_assert"}

\* C1: in every state reached by new, with_capacity, From<&str>,
\* From<String>, push_str, push, reserve, clear, clone and the integer
\* render fast path, every buffer has len <= capacity.
C1_LenWithinCapacity ==
    \A i \in DOMAIN bufs : bufs[i].len <= bufs[i].capacity

\* the integer fast path has written into a buffer that has a clone
C1_Witness ==
    /\ last.op = "render_int" /\ status = "ok"
    /\ DOMAIN bufs = Slots
    /\ bufs[last.b].len > 0 /\ bufs[last.b].len < bufs[last.b].capacity

\* C2: every push_str(text) that returns leaves the old content followed by
\* text and a length larger by exactly Len(text); so after any sequence of
\* appends the content is the initial content followed by every appended
\* span in call order (hist).
C2_PushStrConcatenates ==
    /\ [](\A i \in DOMAIN bufs : Content(i) = hist[i])
    /\ [][\A i \in Slots, t \in OneIn.texts :
            (Did("push_str", i) /\ PushStrAt(i, t, OneIn) /\ Returned) =>
                /\ bufs'[i].len = bufs[i].len + Len(t)
                /\ as_str(bufs'[i], heap') = Content(i) \o t]_vars

\* two spans were pushed, the second one after a growth that moved the block
C2_Witness ==
    /\ last.op = "push_str" /\ status = "ok"
    /\ "s1" \in DOMAIN bufs
    /\ Content("s1") = pie \o apple
    /\ bufs["s1"].data # Fresh(EmptyHeap)

\* the capacity the growth policy prescribes, in unbounded integers
GrowthLaw(b, s) ==
    IF Spare(b) < s THEN max(b.capacity * 2, b.capacity + s) ELSE b.capacity

\* C3: a push_str or reserve of size s that returns leaves the capacity at
\* max(c*2, c+s) when the spare capacity was smaller than s, and unchanged
\* otherwise; "apple" onto an empty buffer gives capacity 5, then "pie"
\* gives capacity 10 with length 8.
C3_GrowthPolicy ==
    [][/\ \A i \in Slots, t \in OneIn.texts :
            (Did("push_str", i) /\ PushStrAt(i, t, OneIn) /\ Returned) =>
                bufs'[i].capacity = GrowthLaw(bufs[i], Len(t))
       /\ \A i \in Slots, n \in OneIn.sizes :
            (Did("reserve", i) /\ ReserveAt(i, n, OneIn) /\ Returned) =>
                bufs'[i].capacity = GrowthLaw(bufs[i], n)
       /\ \A i \in Slots :
            (/\ Did("push_str", i) /\ PushStrAt(i, apple, OneIn) /\ Returned
             /\ bufs[i].capacity = 0) =>
                bufs'[i].capacity = 5 /\ bufs'[i].len = 5
       /\ \A i \in Slots :
            (/\ Did("push_str", i) /\ PushStrAt(i, pie, OneIn) /\ Returned
             /\ bufs[i].capacity = 5 /\ bufs[i].len = 5) =>
                bufs'[i].capacity = 10 /\ bufs'[i].len = 8]_vars

\* tests::test1: "apple" then "pie" pushed onto Buffer::new()
C3_Witness ==
    /\ last.op = "push_str" /\ status = "ok"
    /\ "s1" \in DOMAIN bufs
    /\ Content("s1") = apple \o pie
    /\ bufs["s1"].capacity = 10 /\ bufs["s1"].len = 8

\* C4: a reserve(n) that returns leaves spare capacity of at least n, the
\* length and the content as they were, and, when the spare capacity was
\* already n or more, the capacity, the data pointer and the heap too.
C4_ReserveGuarantee ==
    [][\A i \in Slots, n \in OneIn.sizes :
          (Did("reserve", i) /\ ReserveAt(i, n, OneIn) /\ Returned) =>
              /\ Spare(bufs'[i]) >= n
              /\ bufs'[i].len = bufs[i].len
              /\ as_str(bufs'[i], heap') = Content(i)
              /\ Spare(bufs[i]) >= n => (bufs'[i] = bufs[i] /\ heap' = heap)]_vars

\* reserve grew a buffer that holds text
C4_Witness ==
    /\ last.op = "reserve" /\ status = "ok"
    /\ bufs[last.b].len = 3 /\ bufs[last.b].capacity = 6
    /\ Content(last.b) = pie

\* the operations that mutate a buffer
Mutations == {"push", "push_str", "reserve", "clear", "render_int"}

\* C5: a clone that returns has capacity equal to the source's length and
\* the source's content, and leaves the source as it was; afterwards an
\* operation on one buffer leaves the other buffer's data, length, capacity
\* and content as they were.
C5_CloneIndependent ==
    [][/\ \A i \in Slots :
            (Did("clone", Other(i)) /\ CloneAt(i) /\ Returned) =>
                /\ bufs'[Other(i)].capacity = bufs[i].len
                /\ bufs'[Other(i)].len = bufs[i].len
                /\ as_str(bufs'[Other(i)], heap') = Content(i)
                /\ bufs'[i] = bufs[i]
                /\ as_str(bufs'[i], heap') = Content(i)
       /\ \A j \in Slots :
            (/\ DOMAIN bufs = Slots /\ DOMAIN bufs' = Slots
             /\ last'.op \in Mutations /\ last'.b = Other(j)) =>
                /\ bufs'[j] = bufs[j]
                /\ as_str(bufs'[j], heap') = Content(j)]_vars

\* a clone of a buffer with spare capacity was appended to while the source
\* kept its text
C5_Witness ==
    /\ DOMAIN bufs = Slots /\ status = "ok"
    /\ last.op = "push" /\ last.b = "s2"
    /\ Content("s1") = <<55>> /\ bufs["s1"].capacity > 1
    /\ Content("s2") = <<55>> \o encode_utf8(233)
    /\ bufs["s1"].data # bufs["s2"].data

\* C6: a buffer with capacity 0 holds no allocation: its data pointer is the
\* dangling sentinel, which no allocator call returned.
C6_ZeroCapacityNoAllocation ==
    \A i \in DOMAIN bufs :
        bufs[i].capacity = 0 =>
            bufs[i].data = Dangling /\ bufs[i].data \notin Live(heap)

\* into_string, From<String> and into_string again, from buffer b
RoundTrip(b, h, orc) ==
    LET st == from_string(into_string(b), h, orc)
    IN  [text |-> StrText(into_string(st.buf), st.heap), status |-> st.status]

\* C7: into_string hands over data, len and capacity with the heap left as
\* it is and the text the buffer held; From<String> rebuilds a buffer of the
\* string's text that accepts appends; into_string, From<String>,
\* into_string yields the text the buffer held.
C7_StringRoundTrip ==
    /\ [](\A i \in DOMAIN bufs, orc \in Oracles :
            status = "ok" /\ RoundTrip(bufs[i], heap, orc).status = "ok" =>
                RoundTrip(bufs[i], heap, orc).text = Content(i))
    /\ [][/\ \A i \in Slots :
               (Did("into_string", i) /\ IntoStringAt(i)) =>
                   /\ strs'[i].ptr = bufs[i].data
                   /\ strs'[i].len = bufs[i].len
                   /\ strs'[i].cap = bufs[i].capacity
                   /\ heap' = heap
                   /\ StrText(strs'[i], heap') = Content(i)
          /\ \A i \in Slots :
               (Did("from_string", i) /\ FromStringAt(i) /\ Returned) =>
                   as_str(bufs'[i], heap') = StrText(strs[i], heap)
          /\ \A i \in Slots, t \in OneIn.texts :
               (Did("push_str", i) /\ last.op = "from_string" /\ PushStrAt(i, t, OneIn)) =>
                   /\ status' # "ub"
                   /\ Returned => as_str(bufs'[i], heap') = Content(i) \o t]_vars

\* a buffer with spare capacity became a string and a buffer again, shrunk
\* to its length in a block that moved
C7_Witness ==
    /\ last.op = "from_string" /\ status = "ok"
    /\ "s1" \in DOMAIN bufs
    /\ Content("s1") = pie
    /\ bufs["s1"].capacity = 3
    /\ bufs["s1"].data # Fresh(EmptyHeap)

\* the size or the capacity asked of the allocator exceeds the ceiling
TooLarge(b, s) == s > HalfMax \/ GrowthLaw(b, s) > HalfMax

\* C8: with_capacity(n), reserve(n) and a growing push_str panic exactly
\* when n or the new capacity exceeds usize::MAX / 2, and then the buffers
\* and the heap are as before the call; no buffer has a capacity above
\* usize::MAX / 2 and no operation fails in another way (allocation failure
\* apart).
C8_CapacityCeiling ==
    /\ [](/\ \A i \in DOMAIN bufs : bufs[i].capacity <= HalfMax
          /\ status \in {"ok", "capacity", "overflow", "alloc"})
    /\ [][/\ Panicked => (bufs' = bufs /\ heap' = heap /\ strs' = strs)
          /\ \A n \in OneIn.caps :
               (Did("with_capacity", "s1") /\ WithCapacityAt(n) /\ status' # "alloc") =>
                   (Panicked <=> n > HalfMax)
          /\ \A i \in Slots, n \in OneIn.sizes :
               (Did("reserve", i) /\ ReserveAt(i, n, OneIn) /\ status' # "alloc") =>
                   (Panicked <=> (Spare(bufs[i]) < n /\ TooLarge(bufs[i], n)))
          /\ \A i \in Slots, t \in OneIn.texts :
               (Did("push_str", i) /\ PushStrAt(i, t, OneIn) /\ status' # "alloc") =>
                   (Panicked <=>
                      (Spare(bufs[i]) < Len(t) /\ TooLarge(bufs[i], Len(t))))]_vars

\* reserve(usize::MAX) on a buffer with text: capacity + n wraps around
C8_Witness ==
    /\ status \in {"capacity", "overflow"} /\ last.op = "reserve"
    /\ bufs[last.b].capacity = 5 /\ bufs[last.b].len = 5

\* a growing push_str whose doubled capacity exceeds the ceiling
C8_WitnessPush ==
    /\ status = "capacity" /\ last.op = "push_str"
    /\ bufs[last.b].capacity * 2 > HalfMax

\* C9: the default render_escaped renders the value into a temporary buffer
\* and, when that fails, returns Err with the destination and the heap as
\* they were; otherwise it returns Ok with the destination holding its old
\* content followed by the escaped form of all the value wrote.
C9_DefaultRenderEscaped ==
    [][\A v \in UserValues :
          (Did("render_escaped", "s1") /\ RenderEscapedAt(v) /\ Returned) =>
              IF v.fail
              THEN /\ last'.res = "Err"
                   /\ bufs' = bufs /\ heap' = heap
                   /\ as_str(bufs'["s1"], heap') = Content("s1")
              ELSE /\ last'.res = "Ok"
                   /\ as_str(bufs'["s1"], heap') =
                          Content("s1") \o Escaped(v.text)
                   /\ Live(heap') = {bufs'["s1"].data} \cap Addrs]_vars

\* the value that writes "<c" was escaped after other output, and a failing
\* value was then refused
C9_Witness ==
    /\ last.op = "render_escaped" /\ last.res = "Err" /\ status = "ok"
    /\ fed = << <<"raw", 233>>, <<"user", <<60, 99>> >> >>
    /\ Content("s1") = encode_utf8(233) \o LT \o <<99>>

\* what render_escaped is to append for a character
EntityOf(ch) ==
    CASE ch = 34 -> QUOT
      [] ch = 38 -> AMP
      [] ch = 60 -> LT
      [] ch = 62 -> GT
      [] ch = 39 -> APOS
      [] OTHER -> encode_utf8(ch)

\* C10: render_escaped on a char appends the entity of ", &, <, > or ' and
\* the UTF-8 encoding of any other character; c, <, &, space escaped into
\* an empty buffer give "c&lt;&amp; ".
C10_CharEscaping ==
    [][/\ fed' = << <<"esc", 99>>, <<"esc", 60>>, <<"esc", 38>>, <<"esc", 32>> >>
            => as_str(bufs'["s1"], heap') =
                   <<99, 38, 108, 116, 59, 38, 97, 109, 112, 59, 32>>
       /\ \A ch \in EscChars :
            (/\ Did("render_escaped_char", "s1")
             /\ fed' = Append(fed, <<"esc", ch>>)
             /\ RenderEscapedCharAt(ch) /\ Returned) =>
                /\ last'.res = "Ok"
                /\ as_str(bufs'["s1"], heap') = Content("s1") \o EntityOf(ch)]_vars

\* tests::receiver_coercion: c, <, &, space escaped into one buffer
C10_Witness ==
    /\ last.op = "render_escaped_char" /\ status = "ok"
    /\ fed = << <<"esc", 99>>, <<"esc", 60>>, <<"esc", 38>>, <<"esc", 32>> >>
    /\ bufs["s1"].len = 11

\* the buffer of s1 and the heap, as a render call receives them
Here == St(bufs["s1"], heap, "ok")

\* the content four render calls leave in a new buffer
Rendered4(v1, v2, v3, v4) ==
    LET s0 == St(new, EmptyHeap, "ok")
        r == Render_render(v4,
                 Render_render(v3,
                     Render_render(v2,
                         Render_render(v1, s0, "moved", FALSE).st,
                         "moved", FALSE).st,
                     "moved", FALSE).st,
                 "moved", FALSE).st
    IN  as_str(r.buf, r.heap)

\* the content two render_escaped calls leave in a new buffer
Escaped2(v1, v2) ==
    LET s0 == St(new, EmptyHeap, "ok")
        r == Render_render_escaped(v2,
                 Render_render_escaped(v1, s0, "moved", FALSE).st,
                 "moved", FALSE).st
    IN  as_str(r.buf, r.heap)

\* C11: every render and render_escaped call on a value under wrappers, at
\* any nesting depth, returns the Result and leaves the buffer and the heap
\* that the same operation on the value itself does; true, &false, &&true, &&&false
\* render to "truefalsetruefalse" and Rc(4), Rc(2.3f32) escaped to "42.3".
C11_WrappersForward ==
    [][/\ fed = <<>> =>
            /\ Rendered4(Value("bool", TRUE, Refs(0)), Value("bool", FALSE, Refs(1)),
                         Value("bool", TRUE, Refs(2)), Value("bool", FALSE, Refs(3)))
                 = TRUE_STR \o FALSE_STR \o TRUE_STR \o FALSE_STR
            /\ Escaped2(Value("u8", 4, <<"Rc">>),
                        Value("f32", [class |-> "finite", neg |-> FALSE,
                                      tenths |-> 23], <<"Rc">>))
                 = <<52, 50, 46, 51>>
       /\ \A v \in WrappedValues :
            /\ (Did("render", "s1") /\ last'.arg = v) =>
                   \E orc \in RenderOracles, debug \in ValueBuilds :
                        ValueCall(Render_render(Innermost(v), Here, orc, debug),
                                  "render", v, <<"value">>)
            /\ (Did("render_escaped", "s1") /\ last'.arg = v) =>
                   \E orc \in RenderOracles, debug \in ValueBuilds :
                        ValueCall(Render_render_escaped(Innermost(v), Here, orc,
                                                        debug),
                                  "render_escaped", v, <<"value">>)]_vars

\* tests::receiver_coercion: &&&false was rendered last of four values and
\* the buffer holds "truefalsetruefalse"
C11_Witness ==
    /\ status = "ok" /\ Len(fed) = 4
    /\ last.op = "render" /\ last.arg = Value("bool", FALSE, Refs(3))
    /\ Content("s1") = TRUE_STR \o FALSE_STR \o TRUE_STR \o FALSE_STR

\* what a float is to render as
FloatText(f) ==
    CASE f.class = "nan" -> NAN_STR
      [] f.class = "inf" /\ ~f.neg -> INF_STR
      [] f.class = "inf" /\ f.neg -> NEG_INF_STR
      [] OTHER -> format(f)

ReserveOf(type) == IF type = "f32" THEN F32_RESERVE ELSE F64_RESERVE

\* 0.0, +inf, -inf, NaN of one float type
FloatTest(type) ==
    << Value(type, [class |-> "finite", neg |-> FALSE, tenths |-> 0], <<>>),
       Value(type, [class |-> "inf", neg |-> FALSE, tenths |-> 0], <<>>),
       Value(type, [class |-> "inf", neg |-> TRUE, tenths |-> 0], <<>>),
       Value(type, [class |-> "nan", neg |-> FALSE, tenths |-> 0], <<>>) >>

\* "0.0inf-infNaN"
FloatTestText == <<48, 46, 48, 105, 110, 102, 45, 105, 110, 102, 78, 97, 78>>

\* C12: render and render_escaped of an f32 or f64 append the same bytes:
\* "NaN", "inf" or "-inf" for the values that are not finite and otherwise
\* the formatter's output, written after 16 (f32) or 24 (f64) bytes of spare
\* capacity were reserved; 0.0 gives "0.0" and 0.0, +inf, -inf, NaN in turn
\* give "0.0inf-infNaN".
C12_FloatRendering ==
    [][/\ fed' \in {FloatTest("f32"), FloatTest("f64")} =>
            as_str(bufs'["s1"], heap') = FloatTestText
       /\ \A v \in FloatValues :
            (fed' = Append(fed, v) /\ Returned) =>
                /\ last'.op \in {"render", "render_escaped"}
                /\ last'.res = "Ok"
                /\ as_str(bufs'["s1"], heap') =
                       Content("s1") \o FloatText(v.val)
                /\ (is_finite(v.val) /\ v.val.tenths = 0 /\ ~v.val.neg) =>
                       as_str(bufs'["s1"], heap') = Content("s1") \o <<48, 46, 48>>
                /\ is_finite(v.val) =>
                       bufs'["s1"].capacity - bufs["s1"].len >= ReserveOf(v.type)
                /\ \A orc \in RenderOracles, debug \in ValueBuilds :
                     Render_render_escaped(v, Here, orc, debug) =
                         Render_render(v, Here, orc, debug)]_vars

\* tests::float: 0.0, +inf, -inf and NaN of f64 were escaped in turn
C12_Witness ==
    /\ status = "ok" /\ last.op = "render_escaped"
    /\ fed = FloatTest("f64")
    /\ Content("s1") = FloatTestText
    /\ bufs["s1"].capacity = F64_RESERVE

\* slot i holds a buffer or a string whose pointer is the block at a
Owns(i, a) ==
    \/ i \in DOMAIN bufs /\ bufs[i].data = a
    \/ i \in DOMAIN strs /\ strs[i].ptr = a

\* C13: the capacity of every buffer (and of the string into_string made of
\* it) is the size of the block it owns, no realloc or dealloc was issued
\* for a released block or with another size, and every block that is
\* allocated has exactly one owner: none is shared and none is left behind
\* by growth, drop or into_string.
C13_AllocationsReleasedOnce ==
    /\ status # "ub"
    /\ \A i \in DOMAIN bufs :
         bufs[i].capacity > 0 =>
             /\ bufs[i].data \in Live(heap)
             /\ heap[bufs[i].data].size = bufs[i].capacity
    /\ \A i \in DOMAIN strs :
         strs[i].cap > 0 =>
             /\ strs[i].ptr \in Live(heap)
             /\ heap[strs[i].ptr].size = strs[i].cap
    /\ \A a \in Live(heap) :
         \E i \in Slots : Owns(i, a) /\ \A j \in Slots : Owns(j, a) => j = i

====
